---- MODULE Spec2Model ----
(***************************************************************************)
(* nbxflow: the flow/step execution-tracking model.                        *)
(*                                                                         *)
(* One Flow object owns a FlowRegistry (core/registry.py).  Step objects   *)
(* (core/step.py) are constructed, entered, marked and exited; each entry  *)
(* appends a TaskSpec, each exit writes the terminal status back.  The     *)
(* registry is serialised with to_dict and loaded with from_dict.          *)
(***************************************************************************)
EXTENDS Integers, Sequences, FiniteSets, TLC

\* ------------------------------------------------------------------ bounds
MaxCalls == 6       \* calls made inside the flow in one behaviour
MaxContexts == 2  \* execution contexts (threads, tasks) of one process
MaxList == 3        \* tasks of a registry whose graph is derived

\* ------------------------------------------------------------------ values
NULL == "None"                       \* Python None
NoExc == "NoExc"                     \* exc_type is None
BodyExc == "KeyError"                \* the exception a step body raises
TokenExc == "RuntimeError"           \* ContextVar.reset on a used token
SpanExc == "SpanError"               \* raised while closing the tracing span
InvalidExc == "ValueError"           \* Step.__init__ refuses component_type

COMPONENT_TYPES ==
    { "DataLoader", "Transformer", "Reconciliator", "Enricher",
      "Exporter", "QualityCheck", "Splitter", "Merger",
      "Orchestrator", "Other" }

NoTags == "{}"
SomeTags == "{team: x}"
NoFacets == "{}"
SchemaFacets == "{schema}"

\* DatasetRef(namespace, name, facets): the references user code marks.
\* Two references of the same name in different namespaces.
DatasetRef(namespace, name, facets) ==
    [namespace |-> namespace, name |-> name, facets |-> facets]

Datasets ==
    { DatasetRef("file", "x", NoFacets),
      DatasetRef("api", "x", SchemaFacets) }

ContractDocs == { "suite1" }

\* The constructor calls user code makes: Step(name, component_type, tags).
StepArgs ==
    { <<"a", "Transformer", SomeTags>>,
      <<"b", "auto", NoTags>>,
      <<"a", "Loader", NoTags>> }

\* DatasetRef.to_dict
DatasetRef_to_dict(ds) ==
    [namespace |-> ds.namespace, name |-> ds.name, facets |-> ds.facets]

\* [ds.to_dict() for ds in lst]
DictList(lst) == [i \in 1..Len(lst) |-> DatasetRef_to_dict(lst[i])]

\* ------------------------------------------------------------------ state
VARIABLES
    registry,        \* the Flow's FlowRegistry
    contracts_alias, \* per task: the Step object whose contracts list the
                     \* TaskSpec shares (0: its own list)
    steps,           \* the Step objects constructed so far
    current_flow,    \* ContextVar _current_flow: NULL or "F"
    current_step,    \* ContextVar _current_step: 0 or a Step object
    scopes,          \* the open step scopes, outermost first
    exc,             \* the exception in flight in the user's code
    last_exit,       \* what the last Step.__exit__ got and gave
    entries,         \* history: the step entries made, in order, each with
                     \* the step open around it and the places of its
                     \* events in the log
    writes,          \* history: per task, the number of status write-backs
    marked,          \* history: per Step object, the datasets passed to
                     \* mark_input and to mark_output, in call order
    next_run_id,     \* generate_run_id: the next fresh id
    lifo,            \* history: every exit so far was of the innermost scope
    faults,          \* history: the collaborator failures so far
    events,          \* the lineage events handed to emit_event, in order
    derived,         \* what derive_edges / get_parallelizable_tasks returned
    doc,             \* a FlowSpec document
    loaded,          \* the registry from_dict built from doc
    redoc,           \* the document to_dict built from loaded
    calls,           \* calls made inside the flow so far
    flows,           \* the Flow objects constructed so far
    flow_scopes,     \* the open flow scopes (Flow objects), outermost first
    atexit_handlers, \* the Flow objects whose export atexit will run
    files,           \* the file system: path -> FlowSpec document
    last_flow_exit,  \* what the last Flow.__exit__ got and gave
    process,         \* "running" until the interpreter exits
    ctx_flow,        \* per execution context: the value of _current_flow
    ctx_step,        \* per execution context: the value of _current_step
    ctx_scopes,      \* per execution context: its open step scopes
    own,             \* history: per context, the Flow it opened itself and
                     \* whether it started as a copy of another context
    arg,             \* the name handed to a sanitizer
    out              \* the last call of an exporter function: what it
                     \* returned, raised and wrote

stepvars == << contracts_alias, steps, current_flow, current_step, scopes,
              exc, last_exit, entries, writes, marked, next_run_id, lifo,
              faults, events >>

docvars == << derived, doc, loaded, redoc >>

flowvars == << flows, flow_scopes, atexit_handlers, files, last_flow_exit,
              process >>

threadvars == << ctx_flow, ctx_step, ctx_scopes, own >>

exportvars == << arg, out >>

vars == << registry, stepvars, docvars, calls, flowvars, threadvars,
          exportvars >>

\* utils/time.py now_iso_zulu: a timestamp, never None.
now_iso_zulu == "2026-01-01T00:00:00Z"

\* ------------------------------------------------------------ registry.py
TaskSpec(name, component_type, inputs, outputs, contracts, tags, started_at, finished_at, status, run_id, parent) ==
    [name |-> name, component_type |-> component_type,
     inputs |-> inputs, outputs |-> outputs, contracts |-> contracts,
     tags |-> tags, started_at |-> started_at, finished_at |-> finished_at,
     status |-> status, run_id |-> run_id, parent |-> parent]

\* FlowRegistry(...): the dataclass constructor; _task_stack is init=False.
FlowRegistry(name, run_id, tasks, started_at, finished_at, status) ==
    [name |-> name, run_id |-> run_id, tasks |-> tasks,
     started_at |-> started_at, finished_at |-> finished_at,
     status |-> status, task_stack |-> << >>]

\* A variant of add_task that puts the new task first.
add_task_front(r, task) == [r EXCEPT !.tasks = << task >> \o @]

\* FlowRegistry.add_task
add_task(r, task) == [r EXCEPT !.tasks = Append(@, task)]

\* FlowRegistry.get_task as an index into the task list: the last task of
\* that name (and run_id when one is given), 0 for None.
get_task(tasks, name, run_id) ==
    LET hits == { i \in 1..Len(tasks) :
                    /\ tasks[i].name = name
                    /\ (run_id = NULL \/ tasks[i].run_id = run_id) }
    IN  IF hits = {} THEN 0
        ELSE CHOOSE i \in hits : \A j \in hits : j <= i

\* FlowRegistry.update_task_status
update_task_status(r, name, run_id, status, inputs, outputs, contracts) ==
    LET k == get_task(r.tasks, name, run_id)
    IN  IF k = 0 THEN r
        ELSE [r EXCEPT !.tasks[k].status = status,
                       !.tasks[k].finished_at = now_iso_zulu,
                       !.tasks[k].inputs = inputs,
                       !.tasks[k].outputs = outputs,
                       !.tasks[k].contracts = contracts]

\* dict.get(key, default)
Get(d, key, default) == IF key \in DOMAIN d THEN d[key] ELSE default

\* The concatenation f[1] \o ... \o f[n] of a family of lists.
RECURSIVE SeqConcat(_, _)
SeqConcat(f, n) == IF n = 0 THEN << >> ELSE SeqConcat(f, n - 1) \o f[n]

SeqToSet(q) == { q[i] : i \in 1..Len(q) }

\* list(set(...)): the elements of a set, each once, in some order.
RECURSIVE ListOfSet(_)
ListOfSet(S) ==
    IF S = {} THEN << >>
    ELSE LET x == CHOOSE y \in S : TRUE IN << x >> \o ListOfSet(S \ {x})

\* derive_edges, lines 87-91: the appends made for one pair (task_a, task_b).
PairEdges(task_a, task_b) ==
    LET outs == Get(task_a, "outputs", << >>)
        ins  == Get(task_b, "inputs", << >>)
        hit(o, n) ==
            /\ Get(outs[o], "namespace", NULL) = Get(ins[n], "namespace", NULL)
            /\ Get(outs[o], "name", NULL) = Get(ins[n], "name", NULL)
    IN  SeqConcat([o \in 1..Len(outs) |->
            SeqConcat([n \in 1..Len(ins) |->
                IF hit(o, n) THEN << << task_a.name, task_b.name >> >>
                ELSE << >>], Len(ins))], Len(outs))

\* A variant of the loop that skips only the pair of a task with itself.
EdgeAppends_anyorder(tasks) ==
    LET T == Len(tasks)
    IN  SeqConcat([i \in 1..T |->
            SeqConcat([j \in 1..T |->
                IF i = j THEN << >> ELSE PairEdges(tasks[i], tasks[j])],
                T)], T)

\* derive_edges, lines 78-91: the list `edges` before de-duplication.
EdgeAppends(tasks) ==
    LET T == Len(tasks)
    IN  SeqConcat([i \in 1..T |->
            SeqConcat([j \in 1..T |->
                IF i >= j THEN << >> ELSE PairEdges(tasks[i], tasks[j])],
                T)], T)

\* A variant of derive_edges that returns the list as appended.
derive_edges_nodedup(tasks) == EdgeAppends(tasks)

\* FlowRegistry.derive_edges
derive_edges(tasks) == ListOfSet(SeqToSet(EdgeAppends(tasks)))

\* A variant of the subset that also holds DataLoader.
parallelizable_types_withloader ==
    { "Transformer", "Enricher", "Reconciliator", "QualityCheck", "Splitter",
      "DataLoader" }

\* get_parallelizable_tasks, lines 98-101
parallelizable_types ==
    { "Transformer", "Enricher", "Reconciliator", "QualityCheck", "Splitter" }

\* A variant in which the first task of a name decides.
get_parallelizable_tasks_firstwins(tasks) ==
    LET names == { tasks[i].name : i \in 1..Len(tasks) }
        first(n) == CHOOSE i \in 1..Len(tasks) :
                        /\ tasks[i].name = n
                        /\ \A j \in 1..Len(tasks) : tasks[j].name = n => i <= j
    IN  [n \in names |-> tasks[first(n)].component_type \in parallelizable_types]

\* FlowRegistry.get_parallelizable_tasks: a dict comprehension over the
\* list, so a later task of the same name overwrites an earlier one.
get_parallelizable_tasks(tasks) ==
    LET names == { tasks[i].name : i \in 1..Len(tasks) }
        last(n) == CHOOSE i \in 1..Len(tasks) :
                        /\ tasks[i].name = n
                        /\ \A j \in 1..Len(tasks) : tasks[j].name = n => j <= i
    IN  [n \in names |-> tasks[last(n)].component_type \in parallelizable_types]

\* TaskSpec.to_dict
TaskSpec_to_dict(t) ==
    [name |-> t.name, component_type |-> t.component_type,
     inputs |-> t.inputs, outputs |-> t.outputs, contracts |-> t.contracts,
     tags |-> t.tags, started_at |-> t.started_at,
     finished_at |-> t.finished_at, status |-> t.status,
     run_id |-> t.run_id, parent |-> t.parent]

\* FlowRegistry.to_dict
to_dict(r) ==
    [flow |-> r.name, run_id |-> r.run_id, started_at |-> r.started_at,
     finished_at |-> r.finished_at, status |-> r.status,
     tasks |-> [i \in 1..Len(r.tasks) |-> TaskSpec_to_dict(r.tasks[i])],
     edges |-> derive_edges(r.tasks),
     parallelizable |-> get_parallelizable_tasks(r.tasks)]

\* A variant that does not pass parent to the constructor.
TaskSpec_from_dict_noparent(task_data) ==
    TaskSpec(task_data["name"], task_data["component_type"],
             Get(task_data, "inputs", << >>), Get(task_data, "outputs", << >>),
             Get(task_data, "contracts", << >>), Get(task_data, "tags", NoTags),
             Get(task_data, "started_at", NULL),
             Get(task_data, "finished_at", NULL),
             Get(task_data, "status", NULL), Get(task_data, "run_id", NULL),
             NULL)

\* from_dict, lines 138-150: one TaskSpec from one task document.
TaskSpec_from_dict(task_data) ==
    TaskSpec(task_data["name"], task_data["component_type"],
             Get(task_data, "inputs", << >>), Get(task_data, "outputs", << >>),
             Get(task_data, "contracts", << >>), Get(task_data, "tags", NoTags),
             Get(task_data, "started_at", NULL),
             Get(task_data, "finished_at", NULL),
             Get(task_data, "status", NULL), Get(task_data, "run_id", NULL),
             Get(task_data, "parent", NULL))

\* FlowRegistry.from_dict
from_dict(data) ==
    LET docs == Get(data, "tasks", << >>)
    IN  FlowRegistry(data["flow"], data["run_id"],
                     [i \in 1..Len(docs) |-> TaskSpec_from_dict(docs[i])],
                     Get(data, "started_at", NULL),
                     Get(data, "finished_at", NULL),
                     Get(data, "status", "COMPLETED"))

\* Nothing derived, serialised or loaded yet.
NoDerived == [edges_called |-> FALSE, edges |-> << >>]
NoDoc == [set |-> FALSE]
NoRegistry == [set |-> FALSE]

\* ---------------------------------------------------------------- step.py
\* No Flow object has been constructed by the user's code.
NoFlowExit == [flow |-> 0, got |-> NoExc, gave |-> NoExc]

NoFlows ==
    /\ flows = << >>
    /\ flow_scopes = << >>
    /\ atexit_handlers = << >>
    /\ files = << >>
    /\ last_flow_exit = NoFlowExit
    /\ process = "running"

\* One execution context, the main one, with both ContextVars at their
\* default.
OneContext ==
    /\ ctx_flow = << NULL >>
    /\ ctx_step = << 0 >>
    /\ ctx_scopes = << << >> >>
    /\ own = << [flow |-> 0, copied |-> FALSE] >>

\* No exporter function has been called.
NoOut == [fn |-> "none"]

NoCalls ==
    /\ arg = << >>
    /\ out = NoOut

\* generate_run_id: uuid4, a fresh identifier on every call.
generate_run_id(n) == "run-" \o ToString(n)

NoToken == [set |-> FALSE, old |-> 0, used |-> FALSE]

NoExit ==
    [step |-> 0, task |-> 0, wrote |-> 0, got |-> NoExc, gave |-> NoExc,
     ins |-> << >>, outs |-> << >>, all_ins |-> << >>, all_outs |-> << >>]

Last(q) == q[Len(q)]
Front(q) == SubSeq(q, 1, Len(q) - 1)
Remove(q, k) == SubSeq(q, 1, k - 1) \o SubSeq(q, k + 1, Len(q))

\* The user's code is inside `with Flow("f")`: Flow.__init__ built the
\* registry (status RUNNING, no tasks) and Flow.__enter__ made it the
\* ambient flow and stamped started_at.
Init ==
    /\ registry = [FlowRegistry("f", generate_run_id(0), << >>, NULL, NULL, "RUNNING") EXCEPT !.started_at = now_iso_zulu]
    /\ contracts_alias = << >>
    /\ steps = << >>
    /\ current_flow = "F"
    /\ current_step = 0
    /\ scopes = << >>
    /\ exc = NoExc
    /\ last_exit = NoExit
    /\ entries = << >>
    /\ writes = << >>
    /\ marked = << >>
    /\ next_run_id = 1
    /\ lifo = TRUE
    /\ faults = 0
    /\ events = << >>
    /\ derived = NoDerived
    /\ doc = NoDoc
    /\ loaded = NoRegistry
    /\ redoc = NoDoc
    /\ calls = 0
    /\ NoFlows
    /\ OneContext
    /\ NoCalls

\* A variant of the test that forgets the sentinel.
component_type_accepted_noauto(component_type) ==
    component_type \in COMPONENT_TYPES

\* Step.__init__, line 105: the component_type test.
component_type_accepted(component_type) ==
    component_type \in COMPONENT_TYPES \/ component_type = "auto"

\* Step.__init__: a refused component_type raises ValueError before any
\* field is set; otherwise run_id is drawn here and the ambient flow is
\* captured here.
StepInit(args) ==
    /\ exc = NoExc
    /\ IF component_type_accepted(args[2])
       THEN /\ steps' = Append(steps,
                    [name |-> args[1], component_type |-> args[2],
                     tags |-> args[3],
                     run_id |-> generate_run_id(next_run_id),
                     inputs |-> << >>, outputs |-> << >>, contracts |-> << >>,
                     step_token |-> NoToken, flow_registry |-> current_flow])
            /\ marked' = Append(marked, [ins |-> << >>, outs |-> << >>])
            /\ next_run_id' = next_run_id + 1
            /\ UNCHANGED exc
       ELSE /\ exc' = InvalidExc
            /\ UNCHANGED << steps, marked, next_run_id >>
    /\ UNCHANGED << registry, contracts_alias, current_flow, current_step,
                    scopes, last_exit, entries, writes, lifo, faults, events >>
    /\ UNCHANGED << docvars, exportvars, flowvars, threadvars >>
    /\ calls < MaxCalls
    /\ calls' = calls + 1

\* emit_event(event_type, run_id, job_name, inputs, outputs): what the
\* emitter is handed.
LineageEvent(event_type, run_id, inputs, outputs) ==
    [eventType |-> event_type, run_id |-> run_id,
     inputs |-> inputs, outputs |-> outputs]

\* A variant that reports every exit as a completion.
terminal_event_type_always_complete(success) == "COMPLETE"

\* Step.__exit__, line 201: the type of the terminal event.
terminal_event_type(success) == IF success THEN "COMPLETE" ELSE "FAIL"

\* Step.__enter__
StepEnter(s) ==
    LET self == steps[s]
        in_flow == self.flow_registry # NULL
        stack == registry.task_stack
        task_spec ==
            TaskSpec(self.name, self.component_type, << >>, << >>, << >>,
                     self.tags, now_iso_zulu, NULL, "RUNNING", self.run_id,
                     IF stack # << >> THEN Last(stack) ELSE NULL)
    IN  /\ exc = NoExc
        /\ steps' = [steps EXCEPT ![s].step_token =
                        [set |-> TRUE, old |-> current_step, used |-> FALSE]]
        /\ current_step' = s
        /\ IF in_flow
           THEN /\ registry' = [add_task(registry, task_spec) EXCEPT
                                    !.task_stack = Append(@, self.name)]
                /\ contracts_alias' = Append(contracts_alias, 0)
                /\ writes' = Append(writes, 0)
           ELSE UNCHANGED << registry, contracts_alias, writes >>
        /\ scopes' = Append(scopes,
                [step |-> s,
                 task |-> IF in_flow THEN Len(registry.tasks) + 1 ELSE 0,
                 ins |-> << >>, outs |-> << >>,
                 entry |-> Len(entries) + 1])
        /\ entries' = Append(entries,
                [step |-> s, name |-> self.name, run_id |-> self.run_id,
                 recorded |-> in_flow,
                 enclosing |-> IF scopes # << >>
                               THEN steps[Last(scopes).step].name ELSE NULL,
                 start |-> Len(events) + 1, terminal |-> 0, got |-> NoExc])
        /\ events' = Append(events,
                LineageEvent("START", self.run_id, << >>, << >>))
        /\ UNCHANGED << current_flow, exc, last_exit, marked, next_run_id,
                        lifo, faults >>
        /\ UNCHANGED << docvars, exportvars, flowvars, threadvars >>
        /\ calls < MaxCalls
        /\ calls' = calls + 1

\* A variant of the append that skips a dataset the list already holds.
AppendDataset_dedup(lst, dataset) ==
    IF \E i \in 1..Len(lst) : lst[i] = dataset THEN lst ELSE Append(lst, dataset)

\* list.append(dataset), step.py lines 308 and 313
AppendDataset(lst, dataset) == Append(lst, dataset)

\* Step.mark_input
mark_input(s, dataset) ==
    /\ exc = NoExc
    /\ steps' = [steps EXCEPT ![s].inputs = AppendDataset(@, dataset)]
    /\ marked' = [marked EXCEPT ![s].ins = Append(@, dataset)]
    /\ scopes' = [k \in 1..Len(scopes) |->
            IF scopes[k].step = s
            THEN [scopes[k] EXCEPT !.ins = Append(@, dataset)] ELSE scopes[k]]
    /\ UNCHANGED << registry, contracts_alias, current_flow, current_step,
                    exc, last_exit, entries, writes, next_run_id, lifo,
                    faults, events >>
    /\ UNCHANGED << docvars, exportvars, flowvars, threadvars >>
    /\ calls < MaxCalls
    /\ calls' = calls + 1

\* Step.mark_output
mark_output(s, dataset) ==
    /\ exc = NoExc
    /\ steps' = [steps EXCEPT ![s].outputs = AppendDataset(@, dataset)]
    /\ marked' = [marked EXCEPT ![s].outs = Append(@, dataset)]
    /\ scopes' = [k \in 1..Len(scopes) |->
            IF scopes[k].step = s
            THEN [scopes[k] EXCEPT !.outs = Append(@, dataset)] ELSE scopes[k]]
    /\ UNCHANGED << registry, contracts_alias, current_flow, current_step,
                    exc, last_exit, entries, writes, next_run_id, lifo,
                    faults, events >>
    /\ UNCHANGED << docvars, exportvars, flowvars, threadvars >>
    /\ calls < MaxCalls
    /\ calls' = calls + 1

\* A list shared with a TaskSpec changes in the TaskSpec too.
Shared(tasks, s, contracts) ==
    [i \in 1..Len(tasks) |->
        IF contracts_alias[i] = s
        THEN [tasks[i] EXCEPT !.contracts = contracts] ELSE tasks[i]]

\* Step.add_contract: appends in place, so a TaskSpec that was handed this
\* list at an earlier exit sees the new contract.
add_contract(s, contract) ==
    /\ exc = NoExc
    /\ steps' = [steps EXCEPT ![s].contracts = Append(@, contract)]
    /\ registry' = [registry EXCEPT
            !.tasks = Shared(@, s, Append(steps[s].contracts, contract))]
    /\ UNCHANGED << contracts_alias, current_flow, current_step, scopes,
                    exc, last_exit, entries, writes, marked, next_run_id,
                    lifo, faults, events >>
    /\ UNCHANGED << docvars, exportvars, flowvars, threadvars >>
    /\ calls < MaxCalls
    /\ calls' = calls + 1

\* The step body raises.
BodyRaise ==
    /\ exc = NoExc
    /\ scopes # << >>
    /\ exc' = BodyExc
    /\ UNCHANGED << registry, contracts_alias, steps, current_flow,
                    current_step, scopes, last_exit, entries, writes,
                    marked, next_run_id, lifo, faults, events >>
    /\ UNCHANGED << docvars, exportvars, flowvars, threadvars >>
    /\ calls < MaxCalls
    /\ calls' = calls + 1

\* The user's code catches the exception in flight (try/except around a
\* with block).
Catch ==
    /\ exc # NoExc
    /\ exc' = NoExc
    /\ UNCHANGED << registry, contracts_alias, steps, current_flow,
                    current_step, scopes, last_exit, entries, writes,
                    marked, next_run_id, lifo, faults, events >>
    /\ UNCHANGED << docvars, exportvars, flowvars, threadvars >>
    /\ calls < MaxCalls
    /\ calls' = calls + 1

\* Step.__exit__(exc_type, ...) on the Step object of scope sc.  emit_ok:
\* emit_event returned (it raises when the event does not serialise,
\* lineage.py line 99).  trace_ok: closing the tracing span returned
\* (otel.py line 209 evaluates str(exc_val)).
Exit(sc, exc_type, emit_ok, trace_ok, open) ==
    LET s == sc.step
        self == steps[s]
        success == exc_type = NoExc
        written == emit_ok /\ self.flow_registry # NULL
        k == IF written
             THEN get_task(registry.tasks, self.name, self.run_id) ELSE 0
        updated ==
            update_task_status(registry, self.name, self.run_id,
                IF success THEN "SUCCESS" ELSE "FAILED",
                DictList(self.inputs), DictList(self.outputs),
                self.contracts)
        popped ==
            IF updated.task_stack # << >> /\ Last(updated.task_stack) = self.name
            THEN [updated EXCEPT !.task_stack = Front(@)] ELSE updated
        tok == self.step_token
        raised == IF ~trace_ok THEN SpanExc
                  ELSE IF tok.set /\ tok.used THEN TokenExc ELSE NoExc
        gave == IF raised # NoExc THEN raised ELSE exc_type
    IN  /\ faults' = faults + (IF emit_ok THEN 0 ELSE 1)
                            + (IF trace_ok THEN 0 ELSE 1)
        /\ registry' = IF written THEN popped ELSE registry
        /\ IF k # 0
           THEN /\ contracts_alias' = [contracts_alias EXCEPT ![k] = s]
                /\ writes' = [writes EXCEPT ![k] = @ + 1]
           ELSE UNCHANGED << contracts_alias, writes >>
        /\ IF trace_ok /\ tok.set /\ ~tok.used
           THEN /\ current_step' = tok.old
                /\ steps' = [steps EXCEPT ![s].step_token.used = TRUE]
           ELSE UNCHANGED << current_step, steps >>
        /\ exc' = gave
        /\ last_exit' = [step |-> s, task |-> sc.task, wrote |-> k,
                         got |-> exc_type, gave |-> gave,
                         ins |-> sc.ins, outs |-> sc.outs,
                         all_ins |-> marked[s].ins,
                         all_outs |-> marked[s].outs]
        /\ scopes' = open
        /\ events' = Append(events,
                LineageEvent(terminal_event_type(success), self.run_id,
                             self.inputs, self.outputs))
        /\ entries' = [entries EXCEPT ![sc.entry].terminal = Len(events) + 1,
                                      ![sc.entry].got = exc_type]
        /\ UNCHANGED << current_flow, marked, next_run_id >>
        /\ UNCHANGED << docvars, exportvars, flowvars, threadvars >>
        /\ calls < MaxCalls
        /\ calls' = calls + 1

\* The with statement leaves the innermost step scope, normally or with the
\* exception in flight.
StepExit(emit_ok, trace_ok) ==
    /\ scopes # << >>
    /\ (trace_ok \/ exc # NoExc)
    /\ Exit(Last(scopes), exc, emit_ok, trace_ok, Front(scopes))
    /\ UNCHANGED lifo

\* __exit__(None, None, None) called by hand on a step that is open but is
\* not the innermost one.
StepExitOutOfOrder(k, emit_ok) ==
    /\ exc = NoExc
    /\ k \in 1..(Len(scopes) - 1)
    /\ Exit(scopes[k], NoExc, emit_ok, TRUE, Remove(scopes, k))
    /\ lifo' = FALSE

Next ==
    \/ \E args \in StepArgs : StepInit(args)
    \/ \E s \in 1..Len(steps) : StepEnter(s)
    \/ \E s \in 1..Len(steps), ds \in Datasets : mark_input(s, ds)
    \/ \E s \in 1..Len(steps), ds \in Datasets : mark_output(s, ds)
    \/ \E s \in 1..Len(steps), c \in ContractDocs : add_contract(s, c)
    \/ BodyRaise
    \/ Catch
    \/ \E emit_ok, trace_ok \in BOOLEAN : StepExit(emit_ok, trace_ok)
    \/ \E k \in 1..Len(scopes), emit_ok \in BOOLEAN : StepExitOutOfOrder(k, emit_ok)

Spec == Init /\ [][Next]_vars

\* ------------------------------------------------- registries and documents
\* The registry as a sequence of step executions leaves it: each step either
\* ran to its exit before the next one was entered, with the inputs and
\* outputs it marked, or is still open (RUNNING, nothing written back).
FileX == DatasetRef("file", "x", NoFacets)
FileXSchema == DatasetRef("file", "x", SchemaFacets)
ApiX == DatasetRef("api", "x", NoFacets)

Executions ==
    { [component_type |-> "Transformer", tags |-> SomeTags, status |-> "SUCCESS",
       inputs |-> << >>, outputs |-> << FileX >>, contracts |-> << >>],
      [component_type |-> "DataLoader", tags |-> NoTags, status |-> "FAILED",
       inputs |-> << FileX, FileXSchema >>, outputs |-> << >>, contracts |-> << "suite1" >>],
      [component_type |-> "auto", tags |-> NoTags, status |-> "SUCCESS",
       inputs |-> << FileXSchema >>, outputs |-> << FileX >>, contracts |-> << >>],
      [component_type |-> "QualityCheck", tags |-> NoTags, status |-> "SUCCESS",
       inputs |-> << ApiX >>, outputs |-> << ApiX >>, contracts |-> << >>],
      [component_type |-> "Other", tags |-> NoTags, status |-> "RUNNING",
       inputs |-> << >>, outputs |-> << >>, contracts |-> << >>] }

StepNames == { "a", "b" }

\* The names of the steps still open when task i is entered, outermost first.
RECURSIVE OpenBefore(_, _, _)
OpenBefore(names, runs, i) ==
    IF i <= 1 THEN << >>
    ELSE OpenBefore(names, runs, i - 1) \o
            (IF runs[i - 1].status = "RUNNING" THEN << names[i - 1] >> ELSE << >>)

\* The TaskSpec of the i-th execution: Step.__enter__ and, for a step that
\* has exited, update_task_status.
ExecutedTask(names, runs, i) ==
    LET open == OpenBefore(names, runs, i)
    IN  TaskSpec(names[i], runs[i].component_type,
                 DictList(runs[i].inputs), DictList(runs[i].outputs),
                 runs[i].contracts, runs[i].tags, now_iso_zulu,
                 IF runs[i].status = "RUNNING" THEN NULL ELSE now_iso_zulu,
                 runs[i].status, generate_run_id(i),
                 IF open # << >> THEN open[Len(open)] ELSE NULL)

ExecutedRegistry(names, runs) ==
    LET n == Len(names)
    IN  [FlowRegistry("f", generate_run_id(0),
                      [i \in 1..n |-> ExecutedTask(names, runs, i)],
                      now_iso_zulu, NULL, "RUNNING")
            EXCEPT !.task_stack = OpenBefore(names, runs, n + 1)]

InitRegistry ==
    /\ \E n \in 0..MaxList :
          \E names \in [1..n -> StepNames], runs \in [1..n -> Executions] :
              registry = ExecutedRegistry(names, runs)
    /\ contracts_alias = << >>
    /\ steps = << >>
    /\ current_flow = "F"
    /\ current_step = 0
    /\ scopes = << >>
    /\ exc = NoExc
    /\ last_exit = NoExit
    /\ entries = << >>
    /\ writes = << >>
    /\ marked = << >>
    /\ next_run_id = 1
    /\ lifo = TRUE
    /\ faults = 0
    /\ events = << >>
    /\ derived = NoDerived
    /\ doc = NoDoc
    /\ loaded = NoRegistry
    /\ redoc = NoDoc
    /\ calls = 0
    /\ NoFlows
    /\ OneContext
    /\ NoCalls

\* registry.derive_edges() is called.
CallDeriveEdges ==
    /\ ~derived.edges_called
    /\ derived' = [edges_called |-> TRUE, edges |-> derive_edges(registry.tasks)]
    /\ UNCHANGED << registry, stepvars, doc, loaded, redoc, calls, flowvars, exportvars,
                    threadvars >>

\* registry.to_dict() is called.
ToDict ==
    /\ ~doc.set
    /\ doc' = [set |-> TRUE, stale |-> FALSE, value |-> to_dict(registry)]
    /\ UNCHANGED << registry, stepvars, derived, loaded, redoc, calls, flowvars, exportvars,
                    threadvars >>

\* What a document that was edited, or written by another version, may carry
\* in its derived fields.
StaleDerived ==
    { [edges |-> << >>, parallelizable |-> << >>],
      [edges |-> << << "b", "a" >>, << "a", "a" >> >>,
       parallelizable |-> [n \in {"a", "b"} |-> n = "a"]] }

\* The document's edges and parallelizable fields are replaced.
Tamper(st) ==
    /\ doc.set /\ ~doc.stale /\ ~loaded.set
    /\ doc' = [doc EXCEPT !.stale = TRUE,
                          !.value.edges = st.edges,
                          !.value.parallelizable = st.parallelizable]
    /\ UNCHANGED << registry, stepvars, derived, loaded, redoc, calls, flowvars, exportvars,
                    threadvars >>

\* The document's edges and parallelizable fields are removed.
DropDerived ==
    /\ doc.set /\ ~doc.stale /\ ~loaded.set
    /\ doc' = [doc EXCEPT !.stale = TRUE,
                          !.value = [k \in DOMAIN doc.value \ {"edges", "parallelizable"} |-> doc.value[k]]]
    /\ UNCHANGED << registry, stepvars, derived, loaded, redoc, calls, flowvars, exportvars,
                    threadvars >>

\* FlowRegistry.from_dict(doc) is called.
FromDict ==
    /\ doc.set /\ ~loaded.set
    /\ loaded' = [set |-> TRUE, value |-> from_dict(doc.value)]
    /\ UNCHANGED << registry, stepvars, derived, doc, redoc, calls, flowvars, exportvars,
                    threadvars >>

\* to_dict() is called on the loaded registry.
Reserialize ==
    /\ loaded.set /\ ~redoc.set
    /\ redoc' = [set |-> TRUE, value |-> to_dict(loaded.value)]
    /\ UNCHANGED << registry, stepvars, derived, doc, loaded, calls, flowvars, exportvars,
                    threadvars >>

NextRegistry ==
    \/ CallDeriveEdges
    \/ ToDict
    \/ \E st \in StaleDerived : Tamper(st)
    \/ DropDerived
    \/ FromDict
    \/ Reserialize

SpecRegistry == InitRegistry /\ [][NextRegistry]_vars

\* -------------------------------------------------------------------- Flow
MetricsExc == "MetricsError"         \* raised by the Prometheus gauge

\* The constructor calls user code makes:
\* Flow(name, run_id, auto_export, export_path).
FlowArgs ==
    { << "f", NULL, TRUE, NULL >>,
      << "g", "r", TRUE, "out.json" >>,
      << "f", NULL, FALSE, NULL >> }

\* The value of _current_flow when the registry of Flow object f is ambient.
FlowId(f) == "F" \o ToString(f)

\* _export_on_exit, line 92: the path used when none was given.
default_export_path(name, run_id) == name \o "_flow_" \o run_id \o ".json"

\* open(path, "w") and json.dump: the file holds the document.
WriteFile(fs, path, document) ==
    [q \in DOMAIN fs \cup {path} |-> IF q = path THEN document ELSE fs[q]]

\* The user's code runs at top level: no flow is ambient.
InitFlow ==
    /\ registry = NoRegistry
    /\ contracts_alias = << >>
    /\ steps = << >>
    /\ current_flow = NULL
    /\ current_step = 0
    /\ scopes = << >>
    /\ exc = NoExc
    /\ last_exit = NoExit
    /\ entries = << >>
    /\ writes = << >>
    /\ marked = << >>
    /\ next_run_id = 1
    /\ lifo = TRUE
    /\ faults = 0
    /\ events = << >>
    /\ derived = NoDerived
    /\ doc = NoDoc
    /\ loaded = NoRegistry
    /\ redoc = NoDoc
    /\ calls = 0
    /\ NoFlows
    /\ OneContext
    /\ NoCalls

\* Flow.__init__
FlowInit(args) ==
    LET run_id == IF args[2] # NULL THEN args[2]
                  ELSE generate_run_id(next_run_id)
    IN  /\ process = "running"
        /\ exc = NoExc
        /\ calls < MaxCalls
        /\ calls' = calls + 1
        /\ flows' = Append(flows,
                [name |-> args[1], run_id |-> run_id,
                 auto_export |-> args[3], export_path |-> args[4],
                 registry |-> FlowRegistry(args[1], run_id, << >>, NULL, NULL,
                                           "RUNNING"),
                 token |-> NoToken, cleanup_registered |-> FALSE,
                 exits |-> 0])
        /\ next_run_id' = IF args[2] # NULL THEN next_run_id
                          ELSE next_run_id + 1
        /\ UNCHANGED << registry, contracts_alias, steps, current_flow,
                        current_step, scopes, exc, last_exit, entries, writes,
                        marked, lifo, faults, events >>
        /\ UNCHANGED << docvars, exportvars, flow_scopes, atexit_handlers, files,
                        last_flow_exit, process, threadvars >>

\* Flow.__enter__
FlowEnter(f) ==
    LET self == flows[f]
        register == self.auto_export /\ ~self.cleanup_registered
    IN  /\ process = "running"
        /\ exc = NoExc
        /\ calls < MaxCalls
        /\ calls' = calls + 1
        /\ current_flow' = FlowId(f)
        /\ flows' = [flows EXCEPT
                ![f].token = [set |-> TRUE, old |-> current_flow,
                              used |-> FALSE],
                ![f].registry.started_at = now_iso_zulu,
                ![f].cleanup_registered = @ \/ register]
        /\ atexit_handlers' = IF register THEN Append(atexit_handlers, f)
                              ELSE atexit_handlers
        /\ flow_scopes' = Append(flow_scopes, f)
        /\ UNCHANGED << registry, contracts_alias, steps, current_step,
                        scopes, exc, last_exit, entries, writes, marked,
                        next_run_id, lifo, faults, events >>
        /\ UNCHANGED << docvars, exportvars, files, last_flow_exit, process, threadvars >>

\* The body of the innermost flow scope raises.
FlowBodyRaise ==
    /\ process = "running"
    /\ exc = NoExc
    /\ flow_scopes # << >>
    /\ calls < MaxCalls
    /\ calls' = calls + 1
    /\ exc' = BodyExc
    /\ UNCHANGED << registry, contracts_alias, steps, current_flow,
                    current_step, scopes, last_exit, entries, writes, marked,
                    next_run_id, lifo, faults, events >>
    /\ UNCHANGED << docvars, exportvars, flowvars, threadvars >>

\* A variant that records SUCCESS whatever left the scope.
flow_exit_status_always_success(exc_type) == "SUCCESS"

\* Flow.__exit__, lines 69-72
flow_exit_status(exc_type) ==
    IF exc_type = NoExc THEN "SUCCESS" ELSE "FAILED"

\* Flow.__exit__ of the innermost flow scope, normally or with the exception
\* in flight.  metrics_ok: the Prometheus gauge returned; an exception of
\* the try block propagates after the finally block has reset the token.
FlowExit(metrics_ok) ==
    LET f == Last(flow_scopes)
        self == flows[f]
        tok == self.token
        reset_raises == tok.set /\ tok.used
        gave == IF reset_raises THEN TokenExc
                ELSE IF ~metrics_ok THEN MetricsExc ELSE exc
    IN  /\ process = "running"
        /\ flow_scopes # << >>
        /\ calls < MaxCalls
        /\ calls' = calls + 1
        /\ flows' = [flows EXCEPT
                ![f].registry.finished_at = now_iso_zulu,
                ![f].registry.status = flow_exit_status(exc),
                ![f].token.used = TRUE,
                ![f].exits = @ + 1]
        /\ current_flow' = IF tok.set /\ ~tok.used THEN tok.old
                           ELSE current_flow
        /\ exc' = gave
        /\ last_flow_exit' = [flow |-> f, got |-> exc, gave |-> gave]
        /\ flow_scopes' = Front(flow_scopes)
        /\ UNCHANGED << registry, contracts_alias, steps, current_step,
                        scopes, last_exit, entries, writes, marked,
                        next_run_id, lifo, faults, events >>
        /\ UNCHANGED << docvars, exportvars, atexit_handlers, files, process,
                        threadvars >>

\* Flow._export_on_exit of the handlers hs, one after the other: the path is
\* fixed on first use and the registry is written as it is then.
RECURSIVE ExportAll(_, _, _)
ExportAll(hs, fl, fs) ==
    IF hs = << >> THEN [flows |-> fl, files |-> fs]
    ELSE LET f == hs[1]
             path == IF fl[f].export_path # NULL THEN fl[f].export_path
                     ELSE default_export_path(fl[f].name, fl[f].run_id)
         IN  ExportAll(Tail(hs),
                       [fl EXCEPT ![f].export_path = path],
                       WriteFile(fs, path, to_dict(fl[f].registry)))

\* Reverse(q): atexit runs the handlers last registered first.
Reverse(q) == [i \in 1..Len(q) |-> q[Len(q) + 1 - i]]

\* The interpreter exits: every with block has been left and atexit runs
\* the registered handlers.
ProcessExit ==
    LET done == ExportAll(Reverse(atexit_handlers), flows, files)
    IN  /\ process = "running"
        /\ flow_scopes = << >>
        /\ process' = "exited"
        /\ flows' = done.flows
        /\ files' = done.files
        /\ UNCHANGED << registry, stepvars, docvars, exportvars, calls, flow_scopes,
                        atexit_handlers, last_flow_exit, threadvars >>

\* The user's code catches the exception in flight.
FlowCatch ==
    /\ process = "running"
    /\ flows # << >>
    /\ Catch

NextFlow ==
    \/ \E args \in FlowArgs : FlowInit(args)
    \/ \E f \in 1..Len(flows) : FlowEnter(f)
    \/ FlowBodyRaise
    \/ FlowCatch
    \/ \E metrics_ok \in BOOLEAN : FlowExit(metrics_ok)
    \/ ProcessExit

SpecFlow == InitFlow /\ [][NextFlow]_vars

\* ------------------------------------------------------ execution contexts
\* ContextVar.set as a process-wide slot: every context sees the value.
cv_set_global(cv, c, value) == [k \in DOMAIN cv |-> value]

\* ContextVar.set (step.py lines 25-26, 54, 132): the value changes in the
\* calling context only.
cv_set(cv, c, value) == [cv EXCEPT ![c] = value]

\* ContextVar.get in context c
cv_get(cv, c) == cv[c]

\* The dataset the code running in context c works on.
ContextDataset(c) == DatasetRef("file", "ctx" \o ToString(c), NoFacets)

\* The Flow object whose registry is the value v of _current_flow.
FlowOf(v) == CHOOSE f \in 1..Len(flows) : FlowId(f) = v

InitThreads == InitFlow

\* A new context starts: a thread (empty context) or a task or
\* copy_context().run (a copy of the context that starts it).
Spawn(c, inherit) ==
    /\ Len(ctx_flow) < MaxContexts
    /\ calls < MaxCalls
    /\ calls' = calls + 1
    /\ ctx_flow' = Append(ctx_flow, IF inherit THEN cv_get(ctx_flow, c) ELSE NULL)
    /\ ctx_step' = Append(ctx_step, IF inherit THEN cv_get(ctx_step, c) ELSE 0)
    /\ ctx_scopes' = Append(ctx_scopes, << >>)
    /\ own' = Append(own, [flow |-> 0, copied |-> inherit])
    /\ UNCHANGED << registry, stepvars, docvars, exportvars, flowvars >>

\* `with Flow(name):` in context c: Flow.__init__ and Flow.__enter__.
FlowOpen(c, name) ==
    LET f == Len(flows) + 1
        run_id == generate_run_id(next_run_id)
    IN  /\ own[c].flow = 0
        /\ calls < MaxCalls
        /\ calls' = calls + 1
        /\ flows' = Append(flows,
                [name |-> name, run_id |-> run_id, auto_export |-> FALSE,
                 export_path |-> NULL,
                 registry |-> [FlowRegistry(name, run_id, << >>, NULL, NULL,
                                            "RUNNING")
                                  EXCEPT !.started_at = now_iso_zulu],
                 token |-> [set |-> TRUE, old |-> cv_get(ctx_flow, c),
                            used |-> FALSE],
                 cleanup_registered |-> FALSE, exits |-> 0])
        /\ ctx_flow' = cv_set(ctx_flow, c, FlowId(f))
        /\ own' = [own EXCEPT ![c].flow = f]
        /\ next_run_id' = next_run_id + 1
        /\ UNCHANGED << registry, contracts_alias, steps, current_flow,
                        current_step, scopes, exc, last_exit, entries, writes,
                        marked, lifo, faults, events >>
        /\ UNCHANGED << docvars, exportvars, flow_scopes, atexit_handlers, files,
                        last_flow_exit, process, ctx_step, ctx_scopes >>

\* `with step(name, component_type, tags):` in context c: Step.__init__
\* captures the flow ambient in c, Step.__enter__ makes the Step current in
\* c, appends its TaskSpec to the captured registry and pushes its name.
StepOpen(c, args) ==
    LET s == Len(steps) + 1
        run_id == generate_run_id(next_run_id)
        flow_registry == cv_get(ctx_flow, c)
        in_flow == flow_registry # NULL
        f == FlowOf(flow_registry)
        stack == flows[f].registry.task_stack
        task_spec ==
            TaskSpec(args[1], args[2], << >>, << >>, << >>, args[3],
                     now_iso_zulu, NULL, "RUNNING", run_id,
                     IF stack # << >> THEN Last(stack) ELSE NULL)
    IN  /\ calls < MaxCalls
        /\ calls' = calls + 1
        /\ steps' = Append(steps,
                [name |-> args[1], component_type |-> args[2],
                 tags |-> args[3], run_id |-> run_id,
                 inputs |-> << >>, outputs |-> << >>, contracts |-> << >>,
                 step_token |-> [set |-> TRUE, old |-> cv_get(ctx_step, c),
                                 used |-> FALSE],
                 flow_registry |-> flow_registry,
                 ctx |-> c, expected |-> own[c].flow])
        /\ next_run_id' = next_run_id + 1
        /\ ctx_step' = cv_set(ctx_step, c, s)
        /\ ctx_scopes' = [ctx_scopes EXCEPT ![c] = Append(@, s)]
        /\ IF in_flow
           THEN flows' = [flows EXCEPT ![f].registry =
                            [add_task(@, task_spec) EXCEPT
                                !.task_stack = Append(@, args[1])]]
           ELSE UNCHANGED flows
        /\ entries' = Append(entries,
                [step |-> s, name |-> args[1], run_id |-> run_id,
                 recorded |-> in_flow])
        /\ events' = Append(events,
                LineageEvent("START", run_id, << >>, << >>))
        /\ UNCHANGED << registry, contracts_alias, current_flow, current_step,
                        scopes, exc, last_exit, writes, marked, lifo, faults >>
        /\ UNCHANGED << docvars, exportvars, flow_scopes, atexit_handlers, files,
                        last_flow_exit, process, ctx_flow, own >>

\* The module-level mark_input(dataset), lines 342-348, called in context
\* c: the dataset goes to the Step current in c, if any.
MarkCurrent(c) ==
    LET current == cv_get(ctx_step, c)
    IN  /\ current # 0
        /\ calls < MaxCalls
        /\ calls' = calls + 1
        /\ steps' = [steps EXCEPT ![current].inputs =
                        AppendDataset(@, ContextDataset(c))]
        /\ UNCHANGED << registry, contracts_alias, current_flow, current_step,
                        scopes, exc, last_exit, entries, writes, marked,
                        next_run_id, lifo, faults, events >>
        /\ UNCHANGED << docvars, exportvars, flowvars, threadvars >>

\* The with block of the innermost step scope of context c is left without
\* an exception: Step.__exit__.  emit_ok as in Exit.
StepClose(c, emit_ok) ==
    LET s == Last(ctx_scopes[c])
        self == steps[s]
        written == emit_ok /\ self.flow_registry # NULL
        f == FlowOf(self.flow_registry)
        updated ==
            update_task_status(flows[f].registry, self.name, self.run_id,
                "SUCCESS", DictList(self.inputs), DictList(self.outputs),
                self.contracts)
        popped ==
            IF updated.task_stack # << >> /\ Last(updated.task_stack) = self.name
            THEN [updated EXCEPT !.task_stack = Front(@)] ELSE updated
    IN  /\ ctx_scopes[c] # << >>
        /\ calls < MaxCalls
        /\ calls' = calls + 1
        /\ faults' = faults + (IF emit_ok THEN 0 ELSE 1)
        /\ IF written
           THEN flows' = [flows EXCEPT ![f].registry = popped]
           ELSE UNCHANGED flows
        /\ events' = Append(events,
                LineageEvent(terminal_event_type(TRUE), self.run_id,
                             self.inputs, self.outputs))
        /\ steps' = [steps EXCEPT ![s].step_token.used = TRUE]
        /\ ctx_step' = cv_set(ctx_step, c, self.step_token.old)
        /\ ctx_scopes' = [ctx_scopes EXCEPT ![c] = Front(@)]
        /\ UNCHANGED << registry, contracts_alias, current_flow, current_step,
                        scopes, exc, last_exit, entries, writes, marked,
                        next_run_id, lifo >>
        /\ UNCHANGED << docvars, exportvars, flow_scopes, atexit_handlers, files,
                        last_flow_exit, process, ctx_flow, own >>

NextThreads ==
    \/ \E c \in 1..Len(ctx_flow), inherit \in BOOLEAN : Spawn(c, inherit)
    \/ \E c \in 1..Len(ctx_flow), name \in {"f"} : FlowOpen(c, name)
    \/ \E c \in 1..Len(ctx_flow),
          args \in { a \in StepArgs : component_type_accepted(a[2]) } :
              StepOpen(c, args)
    \/ \E c \in 1..Len(ctx_flow) : MarkCurrent(c)
    \/ \E c \in 1..Len(ctx_flow), emit_ok \in BOOLEAN : StepClose(c, emit_ok)

SpecThreads == InitThreads /\ [][NextThreads]_vars

\* ------------------------------------------------------------ sanitizers
\* A string is the sequence of its characters.
MaxName == 3         \* characters of a name handed to a sanitizer

LowerLetters ==
    << "a", "b", "c", "d", "e", "f", "g", "h", "i", "j", "k", "l", "m",
       "n", "o", "p", "q", "r", "s", "t", "u", "v", "w", "x", "y", "z" >>
UpperLetters ==
    << "A", "B", "C", "D", "E", "F", "G", "H", "I", "J", "K", "L", "M",
       "N", "O", "P", "Q", "R", "S", "T", "U", "V", "W", "X", "Y", "Z" >>
Digits == { "0", "1", "2", "3", "4", "5", "6", "7", "8", "9" }

\* The characters of the names tried: a lower-case and an upper-case
\* letter, a digit, the underscore and a character outside [a-zA-Z0-9_].
NameChars == { "a", "B", "1", "_", "-" }

Names == UNION { [1..n -> NameChars] : n \in 0..MaxName }

\* The class [a-zA-Z0-9_] of the regular expressions.
WordChars == SeqToSet(LowerLetters) \cup SeqToSet(UpperLetters) \cup Digits \cup { "_" }

\* A variant of lower() that swaps the case of every letter.
str_swapcase(name) ==
    [i \in 1..Len(name) |->
        IF \E k \in 1..26 : UpperLetters[k] = name[i]
        THEN LowerLetters[CHOOSE k \in 1..26 : UpperLetters[k] = name[i]]
        ELSE IF \E k \in 1..26 : LowerLetters[k] = name[i]
             THEN UpperLetters[CHOOSE k \in 1..26 : LowerLetters[k] = name[i]]
             ELSE name[i]]

\* name.lower()
str_lower(name) ==
    [i \in 1..Len(name) |->
        IF \E k \in 1..26 : UpperLetters[k] = name[i]
        THEN LowerLetters[CHOOSE k \in 1..26 : UpperLetters[k] = name[i]]
        ELSE name[i]]

\* re.sub(r'[^a-zA-Z0-9_]', '_', name)
re_sub_nonword(name) ==
    [i \in 1..Len(name) |-> IF name[i] \in WordChars THEN name[i] ELSE "_"]

\* re.sub(r'_+', '_', name): every run of underscores becomes one.
re_sub_underscores(name) ==
    LET keep(i) == ~(name[i] = "_" /\ i > 1 /\ name[i - 1] = "_")
    IN  SeqConcat([i \in 1..Len(name) |->
                      IF keep(i) THEN << name[i] >> ELSE << >>], Len(name))

\* name.strip('_')
RECURSIVE strip_underscores(_)
strip_underscores(name) ==
    IF name = << >> THEN << >>
    ELSE IF name[1] = "_" THEN strip_underscores(Tail(name))
    ELSE IF name[Len(name)] = "_" THEN strip_underscores(Front(name))
    ELSE name

\* str.isdigit() of one character of [a-zA-Z0-9_]
isdigit(c) == c \in Digits

\* airflow_exporter.sanitize_task_name
sanitize_task_name(name) ==
    LET stripped ==
            strip_underscores(re_sub_underscores(re_sub_nonword(str_lower(name))))
        sanitized ==
            IF stripped # << >> /\ isdigit(stripped[1])
            THEN << "t", "a", "s", "k", "_" >> \o stripped ELSE stripped
    IN  IF sanitized # << >> THEN sanitized ELSE << "u", "n", "k", "n", "o", "w", "n", "_", "t", "a", "s", "k" >>

\* prefect_exporter.sanitize_function_name
sanitize_function_name(name) ==
    LET stripped ==
            strip_underscores(re_sub_underscores(re_sub_nonword(str_lower(name))))
        sanitized ==
            IF stripped # << >> /\ isdigit(stripped[1])
            THEN << "t", "a", "s", "k", "_" >> \o stripped ELSE stripped
    IN  IF sanitized # << >> THEN sanitized ELSE << "u", "n", "k", "n", "o", "w", "n", "_", "t", "a", "s", "k" >>

\* dagster_exporter.sanitize_asset_name
sanitize_asset_name(name) ==
    LET stripped ==
            strip_underscores(re_sub_underscores(re_sub_nonword(str_lower(name))))
        sanitized ==
            IF stripped # << >> /\ isdigit(stripped[1])
            THEN << "a", "s", "s", "e", "t", "_" >> \o stripped ELSE stripped
    IN  IF sanitized # << >> THEN sanitized ELSE << "u", "n", "k", "n", "o", "w", "n", "_", "a", "s", "s", "e", "t" >>

\* graphviz._sanitize_mermaid_id: no lower(), no digit rule.
_sanitize_mermaid_id(name) ==
    LET sanitized == strip_underscores(re_sub_underscores(re_sub_nonword(name)))
    IN  IF sanitized # << >> THEN sanitized ELSE << "n", "o", "d", "e" >>

\* graphviz._sanitize_dot_id: no lower(), no collapse, no strip.
_sanitize_dot_id(name) ==
    LET replaced == re_sub_nonword(name)
        sanitized ==
            IF replaced # << >> /\ isdigit(replaced[1])
            THEN << "n", "_" >> \o replaced ELSE replaced
    IN  IF sanitized # << >> THEN sanitized ELSE << "n", "o", "d", "e" >>

\* The names of the five sanitizers.
Sanitizers ==
    { "sanitize_task_name", "sanitize_function_name", "sanitize_asset_name",
      "_sanitize_mermaid_id", "_sanitize_dot_id" }

\* A name is about to be sanitized.
InitSanitize ==
    /\ registry = NoRegistry
    /\ contracts_alias = << >>
    /\ steps = << >>
    /\ current_flow = NULL
    /\ current_step = 0
    /\ scopes = << >>
    /\ exc = NoExc
    /\ last_exit = NoExit
    /\ entries = << >>
    /\ writes = << >>
    /\ marked = << >>
    /\ next_run_id = 1
    /\ lifo = TRUE
    /\ faults = 0
    /\ events = << >>
    /\ derived = NoDerived
    /\ doc = NoDoc
    /\ loaded = NoRegistry
    /\ redoc = NoDoc
    /\ calls = 0
    /\ NoFlows
    /\ OneContext
    /\ arg \in Names
    /\ out = NoOut

\* The sanitizer is called on the name, and then on what it returned.
Sanitized(fn, once, twice) ==
    /\ out = NoOut
    /\ out' = [fn |-> fn, value |-> once, again |-> twice]
    /\ UNCHANGED << registry, stepvars, docvars, calls, flowvars, threadvars,
                    arg >>

CallSanitizeTaskName ==
    Sanitized("sanitize_task_name", sanitize_task_name(arg),
              sanitize_task_name(sanitize_task_name(arg)))

CallSanitizeFunctionName ==
    Sanitized("sanitize_function_name", sanitize_function_name(arg),
              sanitize_function_name(sanitize_function_name(arg)))

CallSanitizeAssetName ==
    Sanitized("sanitize_asset_name", sanitize_asset_name(arg),
              sanitize_asset_name(sanitize_asset_name(arg)))

CallSanitizeMermaidId ==
    Sanitized("_sanitize_mermaid_id", _sanitize_mermaid_id(arg),
              _sanitize_mermaid_id(_sanitize_mermaid_id(arg)))

CallSanitizeDotId ==
    Sanitized("_sanitize_dot_id", _sanitize_dot_id(arg),
              _sanitize_dot_id(_sanitize_dot_id(arg)))

NextSanitize ==
    \/ CallSanitizeTaskName
    \/ CallSanitizeFunctionName
    \/ CallSanitizeAssetName
    \/ CallSanitizeMermaidId
    \/ CallSanitizeDotId

SpecSanitize == InitSanitize /\ [][NextSanitize]_vars

\* ------------------------------------------------------------- exporters
\* The task documents of the FlowSpecs handed to the exporters: a producer
\* of file:x, a consumer that reads it twice and a task without datasets,
\* under names of which two differ only in case.
ExportNames == { << "a" >>, << "A" >>, << "b" >> }

ExportTasks ==
    { [name |-> n, component_type |-> "DataLoader",
       inputs |-> << >>, outputs |-> DictList(<< FileX >>)] : n \in ExportNames }
    \cup
    { [name |-> n, component_type |-> "Transformer",
       inputs |-> DictList(<< FileX, FileXSchema >>), outputs |-> << >>] :
          n \in ExportNames }
    \cup
    { [name |-> n, component_type |-> "Other",
       inputs |-> << >>, outputs |-> << >>] : n \in ExportNames }

\* A FlowSpec document with its four required top-level keys.
FlowSpec(tasks) ==
    [flow |-> "f", run_id |-> generate_run_id(0), status |-> "SUCCESS",
     tasks |-> tasks]

RequiredKeys == { "flow", "run_id", "status", "tasks" }

\* The document without one of its keys.
Without(document, key) ==
    [k \in DOMAIN document \ { key } |-> document[k]]

\* The documents tried: every task list of up to MaxList tasks, and the
\* documents of at most one task with one required key missing.
FlowSpecs ==
    { FlowSpec(tasks) :
        tasks \in UNION { [1..n -> ExportTasks] : n \in 0..MaxList } }
    \cup
    { Without(FlowSpec(tasks), key) :
        tasks \in UNION { [1..n -> ExportTasks] : n \in 0..1 },
        key \in RequiredKeys }

\* The output paths tried: one inside a directory, one bare file name.
OutputPaths == { "out/flow.py", "flow.py" }

\* os.path.dirname(output_path)
dirname(output_path) == IF output_path = "out/flow.py" THEN "out" ELSE ""

FileNotFound == "FileNotFoundError"  \* os.makedirs('') raises it
KeyErrorExc == "KeyError"            \* data[key] on a missing key
ValueErrorExc == "ValueError"        \* _load_flow_spec refuses the document

\* f"{namespace}:{name}" of a dataset document; the namespaces and names of
\* the documents tried hold no colon, so the pair stands for the string.
dataset_key(ds) == << Get(ds, "namespace", ""), Get(ds, "name", "") >>

\* The name under which a derivation knows a task:
\* sanitize_task_name(task['name']) in the Airflow exporter,
\* sanitize_asset_name(task['name']) in the Dagster exporter,
\* task.get('name', 'unknown') in the visualizations.
task_name(exporter, task) ==
    IF exporter = "airflow" THEN sanitize_task_name(task["name"])
    ELSE IF exporter = "dagster" THEN sanitize_asset_name(task["name"])
    ELSE Get(task, "name", << "u", "n", "k", "n", "o", "w", "n" >>)

\* The first loop of the three derivations: dataset_producers[key] after
\* the loop, the name of the last task with an output of that key.
dataset_producers(tasks, key, exporter) ==
    LET producing ==
            { i \in 1..Len(tasks) :
                \E o \in 1..Len(Get(tasks[i], "outputs", << >>)) :
                    dataset_key(Get(tasks[i], "outputs", << >>)[o]) = key }
    IN  IF producing = {} THEN [found |-> FALSE]
        ELSE [found |-> TRUE,
              name |-> task_name(exporter,
                                 tasks[CHOOSE i \in producing :
                                          \A j \in producing : j <= i])]

\* The second loop for one task: for each of its inputs, in order, the
\* producer of the input's key when there is one and it is not the task.
upstream_of(tasks, task, exporter) ==
    LET ins == Get(task, "inputs", << >>)
        up(n) == dataset_producers(tasks, dataset_key(ins[n]), exporter)
    IN  SeqConcat([n \in 1..Len(ins) |->
            IF up(n).found /\ up(n).name # task_name(exporter, task)
            THEN << [name |-> up(n).name, input |-> ins[n]] >>
            ELSE << >>], Len(ins))

\* airflow_exporter.derive_task_dependencies: the list of
\* (upstream_task, downstream_task) pairs.
derive_task_dependencies(tasks) ==
    SeqConcat([i \in 1..Len(tasks) |->
        LET ups == upstream_of(tasks, tasks[i], "airflow")
        IN  [k \in 1..Len(ups) |->
                << ups[k].name, task_name("airflow", tasks[i]) >>]], Len(tasks))

\* dagster_exporter.derive_asset_dependencies: asset name -> the list of
\* its upstream assets; a later task of the same asset name overwrites.
derive_asset_dependencies(tasks) ==
    LET assets == { task_name("dagster", tasks[i]) : i \in 1..Len(tasks) }
        last(a) == CHOOSE i \in 1..Len(tasks) :
                      /\ task_name("dagster", tasks[i]) = a
                      /\ \A j \in 1..Len(tasks) :
                            task_name("dagster", tasks[j]) = a => j <= i
    IN  [a \in assets |->
            LET ups == upstream_of(tasks, tasks[last(a)], "dagster")
            IN  [k \in 1..Len(ups) |-> ups[k].name]]

\* graphviz._derive_mermaid_edges: the list of (source, target, label);
\* the label is the last path part of the input's name, which for the
\* names tried (no slash, under 20 characters) is the name.
_derive_mermaid_edges(tasks) ==
    SeqConcat([i \in 1..Len(tasks) |->
        LET ups == upstream_of(tasks, tasks[i], "mermaid")
        IN  [k \in 1..Len(ups) |->
                << ups[k].name, task_name("mermaid", tasks[i]),
                   Get(ups[k].input, "name", "") >>]], Len(tasks))

\* The sequential chain the exporters fall back to.
chain(ids) == [i \in 1..(Len(ids) - 1) |-> << ids[i], ids[i + 1] >>]

\* graphviz.to_mermaid: the flowchart, as its node ids and its arrows.
to_mermaid(flow_spec) ==
    LET tasks == Get(flow_spec, "tasks", << >>)
        edges == _derive_mermaid_edges(tasks)
    IN  IF tasks = << >>
        THEN [format |-> "mermaid",
              nodes |-> << << "S", "t", "a", "r", "t" >> >>, edges |-> << >>]
        ELSE [format |-> "mermaid",
              nodes |-> [i \in 1..Len(tasks) |->
                            _sanitize_mermaid_id(task_name("mermaid", tasks[i]))],
              edges |-> IF edges # << >>
                        THEN [k \in 1..Len(edges) |->
                                << _sanitize_mermaid_id(edges[k][1]),
                                   _sanitize_mermaid_id(edges[k][2]) >>]
                        ELSE chain([i \in 1..Len(tasks) |->
                                _sanitize_mermaid_id(tasks[i]["name"])])]

\* graphviz.to_graphviz_dot: the digraph, as its node ids and its arrows.
to_graphviz_dot(flow_spec) ==
    LET tasks == Get(flow_spec, "tasks", << >>)
        edges == _derive_mermaid_edges(tasks)
    IN  [format |-> "dot",
         nodes |-> [i \in 1..Len(tasks) |->
                       _sanitize_dot_id(task_name("mermaid", tasks[i]))],
         edges |-> IF edges # << >>
                   THEN [k \in 1..Len(edges) |->
                           << _sanitize_dot_id(edges[k][1]),
                              _sanitize_dot_id(edges[k][2]) >>]
                   ELSE chain([i \in 1..Len(tasks) |->
                           _sanitize_dot_id(tasks[i]["name"])])]

\* graphviz.to_ascii_flow: the boxes, top to bottom, each followed by an
\* arrow but the last.
to_ascii_flow(flow_spec) ==
    LET tasks == Get(flow_spec, "tasks", << >>)
        names == [i \in 1..Len(tasks) |-> task_name("mermaid", tasks[i])]
    IN  [format |-> "ascii", nodes |-> names, edges |-> chain(names)]

\* The DAG file generate_airflow_dag writes: the task instances and the
\* dependency lines.
airflow_dag(flow_spec) ==
    LET tasks == Get(flow_spec, "tasks", << >>)
        dependencies == derive_task_dependencies(tasks)
    IN  [format |-> "airflow",
         nodes |-> [i \in 1..Len(tasks) |-> task_name("airflow", tasks[i])],
         edges |-> IF dependencies # << >> THEN dependencies
                   ELSE chain([i \in 1..Len(tasks) |->
                                  task_name("airflow", tasks[i])])]

\* The flow file generate_prefect_flow writes: the task functions, called
\* in list order.
prefect_flow(flow_spec) ==
    LET tasks == Get(flow_spec, "tasks", << >>)
    IN  [format |-> "prefect",
         nodes |-> [i \in 1..Len(tasks) |->
                       sanitize_function_name(tasks[i]["name"])],
         edges |-> << >>]

\* The assets file generate_dagster_assets writes: the assets and, for
\* each, its AssetIn keys.
dagster_assets(flow_spec) ==
    LET tasks == Get(flow_spec, "tasks", << >>)
        dependencies == derive_asset_dependencies(tasks)
    IN  [format |-> "dagster",
         nodes |-> [i \in 1..Len(tasks) |-> task_name("dagster", tasks[i])],
         edges |-> SeqConcat([i \in 1..Len(tasks) |->
                      LET deps == dependencies[task_name("dagster", tasks[i])]
                      IN  [k \in 1..Len(deps) |->
                              << deps[k], task_name("dagster", tasks[i]) >>]],
                      Len(tasks))]

\* A FlowSpec document is about to be exported or loaded.
InitExport ==
    /\ registry = NoRegistry
    /\ contracts_alias = << >>
    /\ steps = << >>
    /\ current_flow = NULL
    /\ current_step = 0
    /\ scopes = << >>
    /\ exc = NoExc
    /\ last_exit = NoExit
    /\ entries = << >>
    /\ writes = << >>
    /\ marked = << >>
    /\ next_run_id = 1
    /\ lifo = TRUE
    /\ faults = 0
    /\ events = << >>
    /\ derived = NoDerived
    /\ \E flow_spec \in FlowSpecs :
          doc = [set |-> TRUE, stale |-> FALSE, value |-> flow_spec]
    /\ loaded = NoRegistry
    /\ redoc = NoDoc
    /\ calls = 0
    /\ NoFlows
    /\ OneContext
    /\ NoCalls

\* One call of an exporter function on the document: what it returned,
\* what it raised and what it wrote at which path.
Called(fn, raised, value, path, written) ==
    /\ out = NoOut
    /\ out' = [fn |-> fn, raised |-> raised, value |-> value,
               path |-> path, written |-> written]
    /\ UNCHANGED << registry, stepvars, docvars, calls, flowvars, threadvars,
                    arg >>

\* Nothing returned, nothing written.
Nothing == [format |-> "none"]

\* The three derivations, called on the document's task list as the
\* generators call them.
CallDeriveTaskDependencies ==
    Called("derive_task_dependencies", NoExc,
           derive_task_dependencies(Get(doc.value, "tasks", << >>)),
           NULL, Nothing)

CallDeriveAssetDependencies ==
    Called("derive_asset_dependencies", NoExc,
           derive_asset_dependencies(Get(doc.value, "tasks", << >>)),
           NULL, Nothing)

CallDeriveMermaidEdges ==
    Called("_derive_mermaid_edges", NoExc,
           _derive_mermaid_edges(Get(doc.value, "tasks", << >>)),
           NULL, Nothing)

\* to_mermaid, to_graphviz_dot and to_ascii_flow return the text.
ToMermaid == Called("to_mermaid", NoExc, to_mermaid(doc.value), NULL, Nothing)

ToGraphvizDot ==
    Called("to_graphviz_dot", NoExc, to_graphviz_dot(doc.value), NULL, Nothing)

ToAsciiFlow ==
    Called("to_ascii_flow", NoExc, to_ascii_flow(doc.value), NULL, Nothing)

\* generate_airflow_dag(flow_spec, output_path): builds the text, then
\* os.makedirs(os.path.dirname(output_path)) and the write.
GenerateAirflowDag(output_path) ==
    IF dirname(output_path) = ""
    THEN Called("generate_airflow_dag", FileNotFound, NULL, output_path, Nothing)
    ELSE Called("generate_airflow_dag", NoExc, output_path, output_path,
                airflow_dag(doc.value))

\* generate_prefect_flow(flow_spec, output_path)
GeneratePrefectFlow(output_path) ==
    IF dirname(output_path) = ""
    THEN Called("generate_prefect_flow", FileNotFound, NULL, output_path, Nothing)
    ELSE Called("generate_prefect_flow", NoExc, output_path, output_path,
                prefect_flow(doc.value))

\* generate_dagster_assets(flow_spec, output_path): with no tasks it
\* returns the path at line 187, before anything is built or written.
GenerateDagsterAssets(output_path) ==
    IF Get(doc.value, "tasks", << >>) = << >>
    THEN Called("generate_dagster_assets", NoExc, output_path, output_path,
                Nothing)
    ELSE IF dirname(output_path) = ""
    THEN Called("generate_dagster_assets", FileNotFound, NULL, output_path,
                Nothing)
    ELSE Called("generate_dagster_assets", NoExc, output_path, output_path,
                dagster_assets(doc.value))

\* FlowRegistry.from_dict(data): data["flow"] and data["run_id"] raise
\* KeyError when missing; every other key is read with a default.
LoadFromDict ==
    IF { "flow", "run_id" } \subseteq DOMAIN doc.value
    THEN Called("from_dict", NoExc, from_dict(doc.value), NULL, Nothing)
    ELSE Called("from_dict", KeyErrorExc, NULL, NULL, Nothing)

\* ExportCommand._load_flow_spec, lines 144-154, on the parsed document.
LoadFlowSpec ==
    IF { "flow", "tasks" } \subseteq DOMAIN doc.value
    THEN Called("_load_flow_spec", NoExc, doc.value, NULL, Nothing)
    ELSE Called("_load_flow_spec", ValueErrorExc, NULL, NULL, Nothing)

NextExport ==
    \/ CallDeriveTaskDependencies
    \/ CallDeriveAssetDependencies
    \/ CallDeriveMermaidEdges
    \/ ToMermaid
    \/ ToGraphvizDot
    \/ ToAsciiFlow
    \/ \E output_path \in OutputPaths : GenerateAirflowDag(output_path)
    \/ \E output_path \in OutputPaths : GeneratePrefectFlow(output_path)
    \/ \E output_path \in OutputPaths : GenerateDagsterAssets(output_path)
    \/ LoadFromDict
    \/ LoadFlowSpec

SpecExport == InitExport /\ [][NextExport]_vars

\* ================================================================= claims
\* The TaskSpec the last exited scope appended at its entry.
ExitedTask == registry.tasks[last_exit.task]

\* C1: when the body of a step opened inside the flow raises, then after
\* Step.__exit__ the step's TaskSpec has status FAILED and a finished_at,
\* and the exception given back to the caller is the one the body raised.
C1_FailedStepRecorded ==
    (last_exit.task # 0 /\ last_exit.got # NoExc) =>
        /\ ExitedTask.status = "FAILED"
        /\ ExitedTask.finished_at # NULL
        /\ last_exit.gave = last_exit.got

\* C2: Step.__exit__ never suppresses or replaces the exception of the step
\* body: whatever happens to the bookkeeping during exit, the exception that
\* reaches the caller is the one the body raised.
C2_BodyExceptionReachesCaller ==
    (last_exit.step # 0 /\ last_exit.got # NoExc) =>
        last_exit.gave = last_exit.got

\* C3: every TaskSpec starts RUNNING and changes status exactly once, at the
\* exit of its step: its status is written at most once, it is RUNNING until
\* then and terminal after, and when every entered step has exited no
\* TaskSpec is RUNNING.
C3_StatusChangesExactlyOnce ==
    \A i \in 1..Len(registry.tasks) :
        /\ writes[i] <= 1
        /\ writes[i] = 0 => registry.tasks[i].status = "RUNNING"
        /\ writes[i] = 1 => registry.tasks[i].status \in {"SUCCESS", "FAILED"}
        /\ scopes = << >> => registry.tasks[i].status # "RUNNING"

\* C4 as stated: the finalized TaskSpec's inputs (outputs) are exactly the
\* datasets passed to mark_input (mark_output) between the entry and the
\* exit of the step, in call order.
C4_InputsAreTheCallsOfTheScope ==
    (last_exit.wrote # 0 /\ last_exit.wrote = last_exit.task) =>
        /\ ExitedTask.inputs = DictList(last_exit.ins)
        /\ ExitedTask.outputs = DictList(last_exit.outs)

\* C4 as amended: the TaskSpec an exit finalizes has as inputs (outputs)
\* exactly the datasets passed to mark_input (mark_output) on that Step
\* object since its construction, in call order, each once per call, with
\* no de-duplication and no reordering.
C4_InputsAreTheCallsOnTheStep ==
    last_exit.wrote # 0 =>
        /\ registry.tasks[last_exit.wrote].inputs = DictList(last_exit.all_ins)
        /\ registry.tasks[last_exit.wrote].outputs = DictList(last_exit.all_outs)

\* An exit finalized a TaskSpec after the same dataset was marked twice as
\* input, or two datasets were marked as output.
C4_Witness ==
    /\ last_exit.wrote # 0
    /\ \/ /\ Len(last_exit.all_ins) = 2
          /\ last_exit.all_ins[1] = last_exit.all_ins[2]
       \/ /\ Len(last_exit.all_outs) = 2
          /\ last_exit.all_outs[1] # last_exit.all_outs[2]

\* C10: the task list has exactly one TaskSpec per step entry made so far in
\* the flow, in the order of entry, whatever the order of the exits.
C10_TasksInEntryOrder ==
    /\ Len(registry.tasks) = Len(entries)
    /\ \A i \in 1..Len(entries) :
          /\ entries[i].recorded
          /\ registry.tasks[i].name = entries[i].name
          /\ registry.tasks[i].run_id = entries[i].run_id

\* Two steps of different names were entered and the one entered first was
\* exited first, by hand, while the other was still open.
C10_Witness ==
    /\ ~lifo
    /\ Len(registry.tasks) = 2
    /\ registry.tasks[1].name # registry.tasks[2].name
    /\ registry.tasks[1].status = "SUCCESS"
    /\ registry.tasks[2].status = "RUNNING"

\* Some output of task_a and some input of task_b are the same dataset.
SharesDataset(task_a, task_b) ==
    \E o \in 1..Len(task_a.outputs), n \in 1..Len(task_b.inputs) :
        /\ task_a.outputs[o].namespace = task_b.inputs[n].namespace
        /\ task_a.outputs[o].name = task_b.inputs[n].name

\* C5: derive_edges is forward-only: (A.name, B.name) is an edge if and only
\* if some task A at position i and some task B at a position j > i share a
\* dataset as output of A and input of B.
C5_EdgesAreTheForwardPairs ==
    derived.edges_called =>
        SeqToSet(derived.edges) =
            { << registry.tasks[p[1]].name, registry.tasks[p[2]].name >> :
                p \in { q \in (1..Len(registry.tasks)) \X (1..Len(registry.tasks)) :
                          /\ q[1] < q[2]
                          /\ SharesDataset(registry.tasks[q[1]], registry.tasks[q[2]]) } }

\* A consumer is recorded before its producer and differs from it in name:
\* the datasets match and there is no edge from the producer to the consumer.
C5_Witness ==
    /\ derived.edges_called
    /\ \E i, j \in 1..Len(registry.tasks) :
          /\ i < j
          /\ registry.tasks[i].name # registry.tasks[j].name
          /\ SharesDataset(registry.tasks[j], registry.tasks[i])
          /\ << registry.tasks[j].name, registry.tasks[i].name >>
                \notin SeqToSet(derived.edges)

\* C6: the result of derive_edges has no edge whose producer name equals its
\* consumer name, also when a step name occurs more than once in the list.
C6_NoSelfEdges ==
    derived.edges_called =>
        \A k \in 1..Len(derived.edges) : derived.edges[k][1] # derived.edges[k][2]

\* C7: the result of derive_edges holds each (producer, consumer) pair at
\* most once.
C7_EachEdgeOnce ==
    derived.edges_called =>
        \A p, q \in 1..Len(derived.edges) : p # q => derived.edges[p] # derived.edges[q]

\* The loop appended some pair more than once.
C7_Witness ==
    /\ derived.edges_called
    /\ Len(EdgeAppends(registry.tasks)) > Len(derived.edges)

\* C8: from_dict(r.to_dict()) has r's task list, field by field and in
\* order, and gives the same edges and the same parallelizable map.
C8_RoundTrip ==
    loaded.set =>
        /\ loaded.value.tasks = registry.tasks
        /\ derive_edges(loaded.value.tasks) = derive_edges(registry.tasks)
        /\ get_parallelizable_tasks(loaded.value.tasks)
              = get_parallelizable_tasks(registry.tasks)

\* A registry was loaded back that has a nested task, a task with contracts
\* and an edge.
C8_Witness ==
    /\ loaded.set
    /\ \E i \in 1..Len(registry.tasks) : registry.tasks[i].parent # NULL
    /\ \E i \in 1..Len(registry.tasks) : registry.tasks[i].contracts # << >>
    /\ derive_edges(registry.tasks) # << >>

\* C9: whatever a document carries in edges and parallelizable, loading it
\* and serialising again gives the edges and the parallelizable map computed
\* from the document's tasks.
C9_DerivedFieldsRecomputed ==
    redoc.set =>
        /\ SeqToSet(redoc.value.edges) =
              { << doc.value.tasks[p[1]].name, doc.value.tasks[p[2]].name >> :
                  p \in { q \in (1..Len(doc.value.tasks)) \X (1..Len(doc.value.tasks)) :
                            /\ q[1] < q[2]
                            /\ SharesDataset(doc.value.tasks[q[1]], doc.value.tasks[q[2]]) } }
        /\ DOMAIN redoc.value.parallelizable =
              { doc.value.tasks[i].name : i \in 1..Len(doc.value.tasks) }
        /\ \A i \in 1..Len(doc.value.tasks) :
              (\A j \in (i + 1)..Len(doc.value.tasks) :
                    doc.value.tasks[j].name # doc.value.tasks[i].name)
                => redoc.value.parallelizable[doc.value.tasks[i].name]
                      = (doc.value.tasks[i].component_type \in parallelizable_types)

\* The document that was loaded carried edges that its tasks do not give.
C9_Witness ==
    /\ redoc.set
    /\ "edges" \in DOMAIN doc.value
    /\ doc.value.edges # redoc.value.edges
    /\ redoc.value.edges # << >>

\* C11: no two TaskSpecs of the task list share a run_id, also after
\* repeated executions under one step name and repeated entry of one Step
\* object.
C11_RunIdsDistinct ==
    \A i, j \in 1..Len(registry.tasks) :
        i # j => registry.tasks[i].run_id # registry.tasks[j].run_id

\* C12: every TaskSpec stays retrievable by get_task(name, run_id), and
\* get_task(name) gives the most recently added TaskSpec of that name, none
\* when no task has the name.
C12_SameNameTasksRetrievable ==
    /\ \A i \in 1..Len(registry.tasks) :
          get_task(registry.tasks, registry.tasks[i].name,
                   registry.tasks[i].run_id) = i
    /\ \A n \in {"a", "b", "c"} :
          LET named == { i \in 1..Len(registry.tasks) : registry.tasks[i].name = n }
              found == get_task(registry.tasks, n, NULL)
          IN  IF named = {} THEN found = 0
              ELSE found \in named /\ \A i \in named : i <= found

\* C13: Step(...) with a component_type of the closed set, or with auto,
\* constructs the Step; with any other string it raises at construction and
\* appends no TaskSpec, pushes no name and emits no event.
C13_ComponentTypeValidated ==
    [][\A args \in StepArgs :
          StepInit(args) =>
              IF args[2] \in { "DataLoader", "Transformer", "Reconciliator",
                               "Enricher", "Exporter", "QualityCheck",
                               "Splitter", "Merger", "Orchestrator", "Other",
                               "auto" }
              THEN /\ exc' = NoExc
                   /\ Len(steps') = Len(steps) + 1
                   /\ steps'[Len(steps')].component_type = args[2]
              ELSE /\ exc' = InvalidExc
                   /\ steps' = steps
                   /\ registry' = registry
                   /\ events' = events]_vars

\* A construction was refused while a step was open, after a Step with the
\* sentinel had been constructed.
C13_Witness ==
    /\ exc = InvalidExc
    /\ scopes # << >>
    /\ \E s \in 1..Len(steps) : steps[s].component_type = "auto"

\* C14: every TaskSpec stored in the registry has a component_type of the
\* closed set of ten; the sentinel auto is resolved before storage.
C14_StoredComponentTypeInClosedSet ==
    \A i \in 1..Len(registry.tasks) :
        registry.tasks[i].component_type \in
            { "DataLoader", "Transformer", "Reconciliator", "Enricher",
              "Exporter", "QualityCheck", "Splitter", "Merger",
              "Orchestrator", "Other" }

\* C15: whatever the lineage emission and the metrics lookup do, after
\* Step.__exit__ the step's TaskSpec has its terminal status, finished_at,
\* inputs, outputs and contracts written and the step's name is popped: with
\* exits in nesting order the stack holds the names of the open steps.
C15_ExitFinalizesDespiteCollaborators ==
    (last_exit.task # 0 /\ lifo) =>
        /\ ExitedTask.status \in {"SUCCESS", "FAILED"}
        /\ ExitedTask.finished_at # NULL
        /\ ExitedTask.inputs = DictList(steps[last_exit.step].inputs)
        /\ ExitedTask.outputs = DictList(steps[last_exit.step].outputs)
        /\ ExitedTask.contracts = steps[last_exit.step].contracts
        /\ registry.task_stack =
              [k \in 1..Len(scopes) |-> steps[scopes[k].step].name]

\* The path the export of Flow object f is to be found at.
ExportPath(f) ==
    IF flows[f].export_path # NULL THEN flows[f].export_path
    ELSE flows[f].name \o "_flow_" \o flows[f].run_id \o ".json"

\* C16: when the scope of a Flow created with auto-export has been left,
\* normally or by exception, the FlowSpec document has been written to the
\* export path and records the flow's terminal status.
C16_ExportedAtFlowExit ==
    \A f \in 1..Len(flows) :
        (flows[f].auto_export /\ flows[f].exits > 0) =>
            /\ ExportPath(f) \in DOMAIN files
            /\ files[ExportPath(f)].status = flows[f].registry.status
            /\ files[ExportPath(f)].status \in {"SUCCESS", "FAILED"}

\* C17: a Flow's registry is RUNNING, without finished_at, until the flow
\* scope exits; the exit stamps finished_at, records SUCCESS when no
\* exception left the scope and FAILED otherwise, and does not suppress the
\* exception.
C17_FlowStatusFollowsExit ==
    /\ \A f \in 1..Len(flows) :
          flows[f].exits = 0 =>
              /\ flows[f].registry.status = "RUNNING"
              /\ flows[f].registry.finished_at = NULL
    /\ last_flow_exit.flow # 0 =>
          /\ flows[last_flow_exit.flow].registry.finished_at # NULL
          /\ flows[last_flow_exit.flow].registry.status =
                (IF last_flow_exit.got = NoExc THEN "SUCCESS" ELSE "FAILED")
          /\ last_flow_exit.got # NoExc => last_flow_exit.gave # NoExc

\* A flow scope was left by exception while the scope of another Flow
\* object is still open and RUNNING.
C17_Witness ==
    /\ last_flow_exit.flow # 0
    /\ last_flow_exit.got = BodyExc
    /\ flows[last_flow_exit.flow].registry.status = "FAILED"
    /\ \E f \in 1..Len(flows) :
          /\ flows[f].exits = 0
          /\ \E k \in 1..Len(flow_scopes) : flow_scopes[k] = f

\* C18: with nested flow scopes the ambient flow is the registry of the
\* innermost open scope, and none when no scope is open, whether the scopes
\* were left normally or by exception.
C18_AmbientFlowIsInnermostScope ==
    current_flow =
        (IF flow_scopes = << >> THEN NULL ELSE FlowId(Last(flow_scopes)))

\* The Step object that appended the TaskSpec of run_id r.
StepOfRun(r) == CHOOSE s \in 1..Len(steps) : steps[s].run_id = r

\* The context that marks the dataset ds.
MarkerOf(ds) == CHOOSE c \in 1..Len(own) : ContextDataset(c) = ds

\* C19: for contexts that did not start as a copy of another one: a step
\* captures the flow its own context opened (none when it opened none), so
\* every TaskSpec and every stack entry of a registry comes from steps of
\* the context that opened that flow, and what such a context marks reaches
\* only its own steps.
C19_ContextsKeepTheirOwnFlow ==
    /\ \A s \in 1..Len(steps) :
          ~own[steps[s].ctx].copied =>
              steps[s].flow_registry =
                  (IF steps[s].expected = 0 THEN NULL
                   ELSE FlowId(steps[s].expected))
    /\ \A f \in 1..Len(flows) :
          /\ \A i \in 1..Len(flows[f].registry.tasks) :
                LET s == StepOfRun(flows[f].registry.tasks[i].run_id)
                IN  /\ ~own[steps[s].ctx].copied => own[steps[s].ctx].flow = f
                    /\ \A k \in 1..Len(flows[f].registry.tasks[i].inputs) :
                          LET c == MarkerOf([flows[f].registry.tasks[i].inputs[k]
                                                EXCEPT !.facets = NoFacets])
                          IN  ~own[c].copied => own[c].flow = f
          /\ \A k \in 1..Len(flows[f].registry.task_stack) :
                \E s \in 1..Len(steps) :
                    /\ steps[s].name = flows[f].registry.task_stack[k]
                    /\ steps[s].flow_registry = FlowId(f)
    /\ \A s \in 1..Len(steps) :
          \A k \in 1..Len(steps[s].inputs) :
              ~own[MarkerOf(steps[s].inputs[k])].copied =>
                  steps[s].ctx = MarkerOf(steps[s].inputs[k])

\* Two contexts, neither a copy of the other, each opened a flow of its
\* own and a step in it; the steps are open at the same time and the second
\* context has marked an input.
C19_Witness ==
    /\ Len(own) >= 2
    /\ \A c \in 1..2 :
          /\ ~own[c].copied
          /\ own[c].flow # 0
          /\ ctx_scopes[c] # << >>
          /\ \E i \in 1..Len(flows[own[c].flow].registry.tasks) :
                steps[StepOfRun(flows[own[c].flow].registry.tasks[i].run_id)].ctx = c
    /\ steps[Last(ctx_scopes[2])].inputs # << >>

\* C20: when steps of one flow run in concurrent contexts and their entries
\* and exits interleave, the task list is in entry order and, once every
\* step has exited without a collaborator failure, the active-step stack
\* holds no step's name.
C20_ConcurrentStepsKeepStackBalanced ==
    /\ \A f \in 1..Len(flows) :
          LET mine == { e \in 1..Len(entries) :
                          steps[entries[e].step].flow_registry = FlowId(f) }
          IN  /\ Len(flows[f].registry.tasks) = Cardinality(mine)
              /\ \A i, j \in 1..Len(flows[f].registry.tasks) :
                    i < j =>
                        \E d, e \in mine :
                            /\ d < e
                            /\ entries[d].run_id = flows[f].registry.tasks[i].run_id
                            /\ entries[e].run_id = flows[f].registry.tasks[j].run_id
    /\ (faults = 0 /\ \A c \in 1..Len(ctx_scopes) : ctx_scopes[c] = << >>) =>
          \A f \in 1..Len(flows) : flows[f].registry.task_stack = << >>

\* C27: the parent a TaskSpec got at its entry is the name of the innermost
\* step that was open at that moment, and null when no step was open.
C27_ParentIsInnermostOpenStep ==
    \A e \in 1..Len(entries) :
        entries[e].recorded => registry.tasks[e].parent = entries[e].enclosing

\* C28: every step execution hands the emitter one START event at entry,
\* with empty inputs and outputs, and one terminal event at exit, later in
\* the log, with the same run_id and the inputs and outputs the Step holds
\* at that exit: COMPLETE when the exit got no exception, FAIL otherwise.
\* The log holds no other event.
C28_OneStartThenOneTerminalEvent ==
    LET ended == { entries[e].terminal : e \in 1..Len(entries) } \ {0}
        LastTerminal == IF ended = {} THEN 0
                        ELSE CHOOSE i \in ended : \A j \in ended : j <= i
    IN
    /\ \A e \in 1..Len(entries) :
          /\ entries[e].start \in 1..Len(events)
          /\ events[entries[e].start] =
                [eventType |-> "START", run_id |-> entries[e].run_id,
                 inputs |-> << >>, outputs |-> << >>]
          /\ entries[e].terminal = 0 <=>
                \E k \in 1..Len(scopes) : scopes[k].entry = e
          /\ entries[e].terminal # 0 =>
                /\ entries[e].terminal \in (entries[e].start + 1)..Len(events)
                /\ events[entries[e].terminal].run_id = entries[e].run_id
                /\ events[entries[e].terminal].eventType =
                      (IF entries[e].got = NoExc THEN "COMPLETE" ELSE "FAIL")
          /\ \A d \in 1..Len(entries) :
                d # e =>
                    /\ entries[d].start # entries[e].start
                    /\ entries[e].terminal # 0 =>
                          entries[d].terminal # entries[e].terminal
    /\ \A i \in 1..Len(events) :
          \E e \in 1..Len(entries) :
              i = (IF events[i].eventType = "START"
                   THEN entries[e].start ELSE entries[e].terminal)
    /\ LastTerminal # 0 =>
          /\ events[LastTerminal].inputs = last_exit.all_ins
          /\ events[LastTerminal].outputs = last_exit.all_outs
          /\ events[LastTerminal].run_id = steps[last_exit.step].run_id

\* A step marked an input, its body raised and it exited
\* while the event of the exit did not serialise.
C28_Witness ==
    /\ faults > 0
    /\ \E e \in 1..Len(entries) :
          /\ entries[e].terminal # 0
          /\ entries[e].got = BodyExc
          /\ events[entries[e].terminal].inputs # << >>

\* C29: once a step execution has exited, no later operation changes the
\* status, finished_at, inputs, outputs or contracts of its TaskSpec.
C29_SealedAfterExit ==
    [][\A i \in 1..Len(registry.tasks) :
          (i <= Len(entries) /\ entries[i].terminal # 0) =>
              /\ registry'.tasks[i].status = registry.tasks[i].status
              /\ registry'.tasks[i].finished_at = registry.tasks[i].finished_at
              /\ registry'.tasks[i].inputs = registry.tasks[i].inputs
              /\ registry'.tasks[i].outputs = registry.tasks[i].outputs
              /\ registry'.tasks[i].contracts = registry.tasks[i].contracts]_vars

\* C30: while every exit so far was of the innermost open step, the
\* active-step stack is the names of the open steps, in entry order.
C30_StackIsTheOpenSteps ==
    lifo =>
        registry.task_stack =
            [k \in 1..Len(scopes) |-> steps[scopes[k].step].name]

\* C25 as stated: in the parallelizable map of a serialised registry every
\* task of the registry is mapped, under its name, to true exactly when its
\* component_type is one of the five parallel-safe types.
C25_EveryTaskClassifiedByType ==
    LET ParallelSafe(component_type) ==
            component_type \in { "Transformer", "Enricher", "Reconciliator",
                                 "QualityCheck", "Splitter" }
    IN
    (doc.set /\ ~doc.stale) =>
        \A i \in 1..Len(registry.tasks) :
            /\ registry.tasks[i].name \in DOMAIN doc.value.parallelizable
            /\ doc.value.parallelizable[registry.tasks[i].name] =
                  ParallelSafe(registry.tasks[i].component_type)

\* C25 amended: the map has one entry per task name, and the entry of a
\* name is the classification, by component type only, of the last task of
\* that name in the list; a task whose name no later task bears is mapped
\* to true exactly when its type is one of the five.
C25_LastTaskOfEachNameClassifiedByType ==
    LET ParallelSafe(component_type) ==
            component_type \in { "Transformer", "Enricher", "Reconciliator",
                                 "QualityCheck", "Splitter" }
    IN
    (doc.set /\ ~doc.stale) =>
        /\ DOMAIN doc.value.parallelizable =
              { registry.tasks[i].name : i \in 1..Len(registry.tasks) }
        /\ \A i \in 1..Len(registry.tasks) :
              (\A j \in (i + 1)..Len(registry.tasks) :
                    registry.tasks[j].name # registry.tasks[i].name) =>
                  doc.value.parallelizable[registry.tasks[i].name] =
                      ParallelSafe(registry.tasks[i].component_type)

\* A serialised registry with a DataLoader and a Transformer under two
\* names, mapped to false and to true, and an earlier task that shares the
\* name of a later one of the other class.
C25_Witness ==
    /\ doc.set /\ ~doc.stale
    /\ Len(registry.tasks) = 3
    /\ registry.tasks[1].name = registry.tasks[2].name
    /\ registry.tasks[1].component_type = "QualityCheck"
    /\ registry.tasks[2].component_type = "DataLoader"
    /\ registry.tasks[3].component_type = "Transformer"
    /\ registry.tasks[3].name # registry.tasks[2].name
    /\ doc.value.parallelizable[registry.tasks[2].name] = FALSE
    /\ doc.value.parallelizable[registry.tasks[3].name] = TRUE

\* C22: each of the five sanitizers, applied to what it returned, returns
\* it unchanged.
C22_SanitizeIsIdempotent ==
    out.fn \in Sanitizers => out.again = out.value

\* A name with an upper-case letter, a character outside the class and a
\* leading digit went through a sanitizer that changed it.
C22_Witness ==
    /\ out.fn = "sanitize_task_name"
    /\ arg = << "1", "-", "B" >>
    /\ out.value = << "t", "a", "s", "k", "_", "1", "_", "b" >>

\* C23: what a sanitizer returns is never empty, is made of letters, digits
\* and underscores only, does not start with a digit, has no two
\* underscores in a row and neither starts nor ends with an underscore.
C23_SanitizedIsBareIdentifier ==
    out.fn \in Sanitizers =>
        /\ out.value # << >>
        /\ \A i \in 1..Len(out.value) : out.value[i] \in WordChars
        /\ out.value[1] \notin Digits
        /\ \A i \in 1..(Len(out.value) - 1) :
              ~(out.value[i] = "_" /\ out.value[i + 1] = "_")
        /\ out.value[1] # "_"
        /\ out.value[Len(out.value)] # "_"

\* C21: the dependencies each transform derives from the document's task
\* list are, as a set of (producer, consumer) pairs, the pairs derive_edges
\* gives for those tasks (under the transform's own naming of the tasks),
\* and hold no pair of a task with itself and no pair twice.
C21_TransformsDeriveTheRegistryEdges ==
    LET tasks == Get(doc.value, "tasks", << >>)
        edges == SeqToSet(derive_edges(tasks))
        NoDuplicates(q) == \A i, j \in 1..Len(q) : i < j => q[i] # q[j]
        asset_pairs(deps) ==
            UNION { { << deps[a][k], a >> : k \in 1..Len(deps[a]) } :
                        a \in DOMAIN deps }
    IN  /\ out.fn = "derive_task_dependencies" =>
              /\ SeqToSet(out.value) =
                    { << sanitize_task_name(e[1]), sanitize_task_name(e[2]) >> :
                          e \in edges }
              /\ NoDuplicates(out.value)
              /\ \A k \in 1..Len(out.value) : out.value[k][1] # out.value[k][2]
        /\ out.fn = "derive_asset_dependencies" =>
              /\ asset_pairs(out.value) =
                    { << sanitize_asset_name(e[1]), sanitize_asset_name(e[2]) >> :
                          e \in edges }
              /\ \A a \in DOMAIN out.value :
                    /\ NoDuplicates(out.value[a])
                    /\ \A k \in 1..Len(out.value[a]) : out.value[a][k] # a
        /\ out.fn = "_derive_mermaid_edges" =>
              /\ { << out.value[k][1], out.value[k][2] >> :
                        k \in 1..Len(out.value) } = edges
              /\ NoDuplicates([k \in 1..Len(out.value) |->
                        << out.value[k][1], out.value[k][2] >>])
              /\ \A k \in 1..Len(out.value) : out.value[k][1] # out.value[k][2]

\* C24: on a document whose task list is missing or empty, a transform
\* does not raise and has produced its artifact, one without arrows, when
\* it returns.
C24_EmptyFlowSpecStillExports ==
    LET Texts == { "to_mermaid", "to_graphviz_dot", "to_ascii_flow" }
        Files == { "generate_airflow_dag", "generate_prefect_flow",
                   "generate_dagster_assets" }
        Artifact == IF out.fn \in Texts THEN out.value ELSE out.written
    IN  (out.fn \in Texts \cup Files
            /\ Get(doc.value, "tasks", << >>) = << >>) =>
            /\ out.raised = NoExc
            /\ Artifact # Nothing
            /\ Artifact.edges = << >>

\* C26: loading a document that lacks flow, run_id, status or tasks
\* raises; a registry from_dict returns has a status of RUNNING, SUCCESS
\* or FAILED and the task list of the document.
C26_MissingRequiredKeyFailsAtLoad ==
    /\ out.fn \in { "from_dict", "_load_flow_spec" } =>
          (~(RequiredKeys \subseteq DOMAIN doc.value) => out.raised # NoExc)
    /\ (out.fn = "from_dict" /\ out.raised = NoExc) =>
          /\ out.value.status \in { "RUNNING", "SUCCESS", "FAILED" }
          /\ "tasks" \in DOMAIN doc.value
          /\ out.value.tasks =
                [i \in 1..Len(doc.value["tasks"]) |->
                    TaskSpec_from_dict(doc.value["tasks"][i])]

====
